---- MODULE Spec2Model ----
(***************************************************************************)
(* PotentialPair (src/src/pair/PotentialPair.h): the per-type-pair tables, *)
(* the energy shift modes and the computeForces loop, as a state machine.  *)
(*                                                                         *)
(* Scalars stored in the tables, positions and box edges are integers;     *)
(* forces, energies and virials are exact rationals <<num, den>> in lowest *)
(* terms with den > 0, so that equality of two values is equality of the   *)
(* tuples.  Rounding of the floating point type is not modelled.           *)
(***************************************************************************)
EXTENDS Integers, Sequences, FiniteSets, TLC

\* ------------------------------------------------------------------ bounds
NTypes == 2
MaxParticles == 2
HalfBox == 2
MaxCalls == 3
MaxStep == 2

\* ------------------------------------------------------------ rationals
Abs(n) == IF n < 0 THEN -n ELSE n

Sgn(n) == IF n > 0 THEN 1 ELSE IF n < 0 THEN -1 ELSE 0

RECURSIVE GCD(_, _)
GCD(a, b) == IF b = 0 THEN a ELSE GCD(b, a % b)

\* <<n, d>> in lowest terms; a zero denominator gives the IEEE values
\* <<1,0>> (+inf), <<-1,0>> (-inf), <<0,0>> (NaN)
Norm(n, d) ==
    IF d = 0 THEN <<Sgn(n), 0>>
    ELSE LET g == GCD(Abs(n), Abs(d))
         IN  <<Sgn(d) * (n \div g), Abs(d) \div g>>

R(n) == <<n, 1>>
RZero == R(0)
RAdd(p, q) == Norm(p[1] * q[2] + q[1] * p[2], p[2] * q[2])
RNeg(p) == <<-p[1], p[2]>>
RSub(p, q) == RAdd(p, RNeg(q))
RMul(p, q) == Norm(p[1] * q[1], p[2] * q[2])
RInv(p) == Norm(p[2], p[1])
RHalf == <<1, 2>>
RSixth == <<1, 6>>

\* the sum of f over S
RECURSIVE SumOver(_, _)
SumOver(f, S) ==
    IF S = {} THEN RZero
    ELSE LET a == CHOOSE b \in S : TRUE
         IN  RAdd(f[a], SumOver(f, S \ {a}))

\* -------------------------------------------------------- type pair table
Types == 0 .. NTypes - 1

\* Index2DUpperTriangular(ntypes): one slot per unordered pair
NumElements == (NTypes * (NTypes + 1)) \div 2

Slots == 0 .. NumElements - 1

m_typpair_idx(a, b) ==
    LET lo == IF a < b THEN a ELSE b
        hi == IF a < b THEN b ELSE a
    IN  (lo * (2 * NTypes - lo - 1)) \div 2 + hi

\* energyShiftMode
no_shift == "no_shift"
shift == "shift"
xplor == "xplor"
Modes == {no_shift, shift, xplor}

\* evaluator::param_type of the model evaluator: <<a, b>> of V(r) = a - b r^2
ParamZero == <<0, 0>>
ParamVals == {<<0, 1>>, <<3, 2>>}
RadiusVals == 1 .. HalfBox

\* ------------------------------------------------------------------ state
VARIABLES
    m_shift_mode,   \* energyShiftMode
    m_rcutsq,       \* slot -> cutoff squared
    m_ronsq,        \* slot -> onset squared
    m_params,       \* slot -> param_type
    m_fx, m_fy, m_fz, m_pe, m_virial,   \* particle -> accumulator
    status,         \* outcome of the last configuration call
    ncalls,         \* configuration calls made so far
    shift_set,      \* setShiftMode has been called
    box,            \* m_pdata->getBox()
    nparticles,     \* arrays.nparticles
    px, py, pz,     \* arrays.x, arrays.y, arrays.z
    ptype,          \* arrays.type
    diameter,       \* arrays.diameter
    charge,         \* arrays.charge
    storage,        \* m_nlist->getStorageMode()
    nlist,          \* m_nlist->getList()
    nlist_ts,       \* the timestep of the last m_nlist->compute that built the list
    now,            \* the timestep the simulation is at
    timestep,       \* argument of the running (or last) computeForces
    caller,         \* "log" while getLogValue waits for the computation
    log_value,      \* the value getLogValue returned last
    needsDiameter,  \* evaluator::needsDiameter()
    needsCharge,    \* evaluator::needsCharge()
    par,            \* the outer iterations run side by side (see ParStep)
    pc,             \* "idle", "inner" (inside computeForces), "done"
    third_law,      \* local of computeForces
    i, k,           \* loop indices of computeForces
    fxi, fyi, fzi, pei, viriali,    \* locals of the outer loop body
    ent             \* locals of the inner loop body after its last pass

tableVars == <<m_shift_mode, m_rcutsq, m_ronsq, m_params>>
accVars == <<m_fx, m_fy, m_fz, m_pe, m_virial>>
callVars == <<status, ncalls, shift_set>>
sysVars == <<box, nparticles, px, py, pz, ptype, diameter, charge, storage>>
listVars == <<nlist, nlist_ts>>
loopVars == <<pc, third_law, i, k, fxi, fyi, fzi, pei, viriali, ent>>
runVars == <<now, timestep, caller, log_value>>
evalVars == <<needsDiameter, needsCharge>>
vars == <<tableVars, accVars, callVars, sysVars, listVars, loopVars, runVars,
          evalVars, par>>

Particles == 0 .. nparticles - 1

\* ------------------------------------------------------------- evaluator
\* V(r) = a - b r^2, so force_divr = -(1/r) dV/dr = 2b; with energy_shift the
\* energy is V(r) - V(rcut)
EvalForce(rsq, rcutsq, param) == R(2 * param[2])

EvalEnergy(rsq, rcutsq, param, energy_shift) ==
    IF energy_shift
    THEN R(param[2] * (rcutsq - rsq))
    ELSE R(param[1] - param[2] * rsq)

\* ------------------------------------------------------- inner loop body
\* periodic boundary conditions on one axis
Wrap(d, lo, hi, L) ==
    IF d >= hi THEN d - L
    ELSE IF d < lo THEN d + L
    ELSE d

EnergyShiftXplorGeq(mode, ronsq, rcutsq) ==
    IF mode = shift THEN TRUE
    ELSE IF mode = xplor THEN ronsq >= rcutsq
    ELSE FALSE

EnergyShift(mode, ronsq, rcutsq) ==
    IF mode = shift THEN TRUE
    ELSE IF mode = xplor THEN ronsq > rcutsq
    ELSE FALSE

XplorDenomInv(rcutsq, ronsq) ==
    RInv(R((rcutsq - ronsq) * (rcutsq - ronsq) * (rcutsq - ronsq)))

XplorSWrongCoeff(rsq, rcutsq, ronsq) ==
    RMul(R((rsq - rcutsq) * (rsq - rcutsq) * (rcutsq + 3 * rsq - 3 * ronsq)),
         XplorDenomInv(rcutsq, ronsq))

XplorS(rsq, rcutsq, ronsq) ==
    RMul(R((rsq - rcutsq) * (rsq - rcutsq) * (rcutsq + 2 * rsq - 3 * ronsq)),
         XplorDenomInv(rcutsq, ronsq))

XplorDsSignLost(rsq, rcutsq, ronsq) ==
    RMul(R(12 * (rsq - ronsq) * (rsq + rcutsq)), XplorDenomInv(rcutsq, ronsq))

XplorDs(rsq, rcutsq, ronsq) ==
    RMul(R(12 * (rsq - ronsq) * (rsq - rcutsq)), XplorDenomInv(rcutsq, ronsq))

InRangeLeq(rsq, rcutsq) == rsq <= rcutsq

InRange(rsq, rcutsq) == rsq < rcutsq

\* the test of rsq against the onset left out
WindowedAlways(mode, rsq, ronsq) == mode = xplor

Windowed(mode, rsq, ronsq) == mode = xplor /\ rsq >= ronsq

\* no call of setDiameter, setCharge on the evaluator
NotSet == <<>>

NoEntry ==
    [valid |-> FALSE, i |-> 0, j |-> 0, dx |-> 0, dy |-> 0, dz |-> 0, rsq |-> 0,
     di |-> 0, dj |-> 0, qi |-> 0, qj |-> 0,
     set_diameter |-> NotSet, set_charge |-> NotSet,
     typpair_idx |-> 0, param |-> ParamZero, rcutsq |-> 0, ronsq |-> 0,
     energy_shift |-> FALSE, inrange |-> FALSE, windowed |-> FALSE,
     old_force_divr |-> RZero, old_pair_eng |-> RZero,
     force_divr |-> RZero, pair_eng |-> RZero, pair_virial |-> RZero]

\* the virial with a leading minus sign
PairVirialNegated(rsq, force_divr) == RNeg(RMul(RMul(RSixth, R(rsq)), force_divr))

PairVirial(rsq, force_divr) == RMul(RMul(RSixth, R(rsq)), force_divr)

\* what one pass of the inner loop computes from rsq and the two types:
\* the table lookup, the shift flag, the evaluator and the XPLOR smoothing
Interaction(rsq, typei, typej) ==
    LET idx == m_typpair_idx(typei, typej)
        param == m_params[idx]
        rcutsq == m_rcutsq[idx]
        ronsq == IF m_shift_mode = xplor THEN m_ronsq[idx] ELSE 0
        energy_shift == EnergyShift(m_shift_mode, ronsq, rcutsq)
        inrange == InRange(rsq, rcutsq)
        f0 == EvalForce(rsq, rcutsq, param)
        e0 == EvalEnergy(rsq, rcutsq, param, energy_shift)
        win == inrange /\ Windowed(m_shift_mode, rsq, ronsq)
        s == XplorS(rsq, rcutsq, ronsq)
        ds == XplorDs(rsq, rcutsq, ronsq)
        f1 == IF win THEN RSub(RMul(s, f0), RMul(ds, e0)) ELSE f0
        e1 == IF win THEN RMul(e0, s) ELSE e0
    IN  [typpair_idx |-> idx, param |-> param, rcutsq |-> rcutsq,
         ronsq |-> ronsq, energy_shift |-> energy_shift, inrange |-> inrange,
         windowed |-> win,
         old_force_divr |-> IF inrange THEN f0 ELSE RZero,
         old_pair_eng |-> IF inrange THEN e0 ELSE RZero,
         force_divr |-> IF inrange THEN f1 ELSE RZero,
         pair_eng |-> IF inrange THEN e1 ELSE RZero,
         pair_virial |-> IF inrange THEN PairVirial(rsq, f1) ELSE RZero]

\* the arguments the evaluator of an entry inside the cutoff is given
SetDiameter(inrange, di, dj) ==
    IF inrange /\ needsDiameter THEN <<di, dj>> ELSE NotSet

SetCharge(inrange, di, dj, qi, qj) ==
    IF inrange /\ needsCharge THEN <<di, dj>> ELSE NotSet

\* the locals of one pass of the inner loop, for particle ii and neighbor jj
Entry(ii, jj) ==
    LET Lx == box.xhi - box.xlo
        Ly == box.yhi - box.ylo
        Lz == box.zhi - box.zlo
        dx == Wrap(px[ii] - px[jj], box.xlo, box.xhi, Lx)
        dy == Wrap(py[ii] - py[jj], box.ylo, box.yhi, Ly)
        dz == Wrap(pz[ii] - pz[jj], box.zlo, box.zhi, Lz)
        rsq == dx * dx + dy * dy + dz * dz
        di == IF needsDiameter THEN diameter[ii] ELSE 0
        qi == IF needsCharge THEN charge[ii] ELSE 0
        dj == IF needsDiameter THEN diameter[jj] ELSE 0
        qj == IF needsCharge THEN charge[jj] ELSE 0
        pair == Interaction(rsq, ptype[ii], ptype[jj])
    IN  [valid |-> TRUE, i |-> ii, j |-> jj, dx |-> dx, dy |-> dy, dz |-> dz,
         rsq |-> rsq, di |-> di, dj |-> dj, qi |-> qi, qj |-> qj,
         set_diameter |-> SetDiameter(pair.inrange, di, dj),
         set_charge |-> SetCharge(pair.inrange, di, dj, qi, qj)] @@ pair

\* ------------------------------------------------- particle data and lists
CentredBox(hx, hy, hz) ==
    [xlo |-> -hx, xhi |-> hx, ylo |-> -hy, yhi |-> hy, zlo |-> -hz, zhi |-> hz]

CornerBox(h) ==
    [xlo |-> 0, xhi |-> 2 * h, ylo |-> 0, yhi |-> 2 * h, zlo |-> 0, zhi |-> 2 * h]

Boxes == {CentredBox(HalfBox, HalfBox, HalfBox), CornerBox(HalfBox)}

\* points of box b, as <<x, y, z>>
Sites(b) ==
    {<<b.xlo, b.ylo, b.zhi - 1>>,
     <<b.xlo + 1, b.ylo, b.zhi - 1>>,
     <<b.xlo + 1, b.ylo + 1, b.zhi - 1>>,
     <<b.xlo + HalfBox, b.ylo, b.zhi - 1>>,
     <<b.xhi - 1, b.yhi - 1, b.zlo>>,
     <<b.xhi, b.ylo, b.zhi - 1>>}

RECURSIVE SortedSeq(_)
SortedSeq(S) ==
    IF S = {} THEN <<>>
    ELSE LET m == CHOOSE a \in S : \A c \in S : a <= c
         IN  <<m>> \o SortedSeq(S \ {m})

\* full storage: every particle lists every other particle
FullList(n) == [p \in 0 .. n - 1 |-> SortedSeq((0 .. n - 1) \ {p})]

\* half storage: every unordered pair is listed once, by the particle that
\* owner[<<lo, hi>>] picks
HalfLists(n) ==
    LET P == {pr \in (0 .. n - 1) \X (0 .. n - 1) : pr[1] < pr[2]}
    IN  {[p \in 0 .. n - 1 |->
            SortedSeq({q \in 0 .. n - 1 :
                          \/ p < q /\ owner[<<p, q>>] = p
                          \/ q < p /\ owner[<<q, p>>] = p})] :
         owner \in {o \in [P -> 0 .. n - 1] : \A pr \in P : o[pr] \in {pr[1], pr[2]}}}

\* the separation of the closest periodic images on one axis of length L
MinImageAbs(d, L) == LET m == d % L IN IF 2 * m <= L THEN m ELSE L - m

MinImageRsq(p, q) ==
    LET ax == MinImageAbs(px[p] - px[q], box.xhi - box.xlo)
        ay == MinImageAbs(py[p] - py[q], box.yhi - box.ylo)
        az == MinImageAbs(pz[p] - pz[q], box.zhi - box.zlo)
    IN  ax * ax + ay * ay + az * az

\* the list never built
NoStep == -1

NoList == [p \in Particles |-> <<>>]

\* the squared cutoff of the neighbor list: the largest cutoff of a type pair
ListRsq == HalfBox * HalfBox

\* the list m_nlist->compute builds from the positions: the particles within
\* the list's cutoff, every pair under both particles (full) or under the
\* lower one (half)
BuildList ==
    [p \in Particles |->
        SortedSeq({q \in Particles :
                      /\ q # p
                      /\ storage = "half" => p < q
                      /\ MinImageRsq(p, q) <= ListRsq})]

ZeroAcc == [p \in Particles |-> RZero]

NoPar == <<>>

TablesInit ==
    /\ m_shift_mode = no_shift
    /\ m_rcutsq = [s \in Slots |-> 0]
    /\ m_ronsq = [s \in Slots |-> 0]
    /\ m_params = [s \in Slots |-> ParamZero]
    /\ shift_set = FALSE

LoopInit ==
    /\ status = "none"
    /\ ncalls = 0
    /\ m_fx = ZeroAcc /\ m_fy = ZeroAcc /\ m_fz = ZeroAcc
    /\ m_pe = ZeroAcc /\ m_virial = ZeroAcc
    /\ pc = "idle"
    /\ third_law = FALSE
    /\ i = 0 /\ k = 0
    /\ fxi = RZero /\ fyi = RZero /\ fzi = RZero /\ pei = RZero /\ viriali = RZero
    /\ ent = NoEntry

SystemInit(boxes, placements(_), typings) ==
    /\ nparticles = MaxParticles
    /\ box \in boxes
    /\ \E pos \in placements(box) :
          /\ px = [p \in Particles |-> pos[p][1]]
          /\ py = [p \in Particles |-> pos[p][2]]
          /\ pz = [p \in Particles |-> pos[p][3]]
    /\ ptype \in typings
    /\ diameter = [p \in Particles |-> 2 * p + 2]
    /\ charge = [p \in Particles |-> 2 * p + 1]
    /\ storage \in {"full", "half"}

\* the list as built for the timestep the simulation is at
ListInit ==
    /\ nlist_ts = now
    /\ \/ storage = "full" /\ nlist = FullList(nparticles)
       \/ storage = "half" /\ nlist \in HalfLists(nparticles)

\* no computation yet at timestep 0, no log value read, sequential loops
RunInit ==
    /\ now = 0
    /\ timestep = 0
    /\ caller = "none"
    /\ log_value = RZero
    /\ par = NoPar

\* the evaluator V(r) = a - b r^2 needs neither diameters nor charges
EvalInit ==
    /\ needsDiameter = FALSE
    /\ needsCharge = FALSE

\* ------------------------------------------------------ configuration calls
TypeArgs == 0 .. NTypes

Idle == pc \in {"idle", "done"} /\ caller = "none"

setParams(typ1, typ2, param) ==
    /\ Idle /\ ncalls < MaxCalls
    /\ ncalls' = ncalls + 1
    /\ IF typ1 >= NTypes \/ typ2 >= NTypes
       THEN /\ status' = "error"
            /\ UNCHANGED m_params
       ELSE /\ status' = "ok"
            /\ m_params' = [m_params EXCEPT ![m_typpair_idx(typ1, typ2)] = param]
    /\ pc' = "idle"
    /\ UNCHANGED <<m_shift_mode, m_rcutsq, m_ronsq, shift_set, accVars, sysVars,
                   listVars, runVars, evalVars, par,
                   third_law, i, k, fxi, fyi, fzi, pei, viriali, ent>>

\* the range check with > for >=
setRcutOffByOne(typ1, typ2, rcut) ==
    /\ Idle /\ ncalls < MaxCalls
    /\ ncalls' = ncalls + 1
    /\ IF typ1 > NTypes \/ typ2 > NTypes
       THEN /\ status' = "error"
            /\ UNCHANGED m_rcutsq
       ELSE /\ status' = "ok"
            /\ m_rcutsq' = [s \in Slots |->
                              IF s = m_typpair_idx(typ1, typ2) % NumElements
                              THEN rcut * rcut ELSE m_rcutsq[s]]
    /\ pc' = "idle"
    /\ UNCHANGED <<m_shift_mode, m_ronsq, m_params, shift_set, accVars, sysVars,
                   listVars, runVars, evalVars, par,
                   third_law, i, k, fxi, fyi, fzi, pei, viriali, ent>>

setRcut(typ1, typ2, rcut) ==
    /\ Idle /\ ncalls < MaxCalls
    /\ ncalls' = ncalls + 1
    /\ IF typ1 >= NTypes \/ typ2 >= NTypes
       THEN /\ status' = "error"
            /\ UNCHANGED m_rcutsq
       ELSE /\ status' = "ok"
            /\ m_rcutsq' = [m_rcutsq EXCEPT ![m_typpair_idx(typ1, typ2)] = rcut * rcut]
    /\ pc' = "idle"
    /\ UNCHANGED <<m_shift_mode, m_ronsq, m_params, shift_set, accVars, sysVars,
                   listVars, runVars, evalVars, par,
                   third_law, i, k, fxi, fyi, fzi, pei, viriali, ent>>

\* the assignment to the table of the wrong setter
setRonIntoRcut(typ1, typ2, ron) ==
    /\ Idle /\ ncalls < MaxCalls
    /\ ncalls' = ncalls + 1
    /\ IF typ1 >= NTypes \/ typ2 >= NTypes
       THEN /\ status' = "error"
            /\ UNCHANGED m_rcutsq
       ELSE /\ status' = "ok"
            /\ m_rcutsq' = [m_rcutsq EXCEPT ![m_typpair_idx(typ1, typ2)] = ron * ron]
    /\ pc' = "idle"
    /\ UNCHANGED <<m_shift_mode, m_ronsq, m_params, shift_set, accVars, sysVars,
                   listVars, runVars, evalVars, par,
                   third_law, i, k, fxi, fyi, fzi, pei, viriali, ent>>

setRon(typ1, typ2, ron) ==
    /\ Idle /\ ncalls < MaxCalls
    /\ ncalls' = ncalls + 1
    /\ IF typ1 >= NTypes \/ typ2 >= NTypes
       THEN /\ status' = "error"
            /\ UNCHANGED m_ronsq
       ELSE /\ status' = "ok"
            /\ m_ronsq' = [m_ronsq EXCEPT ![m_typpair_idx(typ1, typ2)] = ron * ron]
    /\ pc' = "idle"
    /\ UNCHANGED <<m_shift_mode, m_rcutsq, m_params, shift_set, accVars, sysVars,
                   listVars, runVars, evalVars, par,
                   third_law, i, k, fxi, fyi, fzi, pei, viriali, ent>>

setShiftMode(mode) ==
    /\ Idle /\ ncalls < MaxCalls
    /\ ncalls' = ncalls + 1
    /\ status' = "ok"
    /\ m_shift_mode' = mode
    /\ shift_set' = TRUE
    /\ pc' = "idle"
    /\ UNCHANGED <<m_rcutsq, m_ronsq, m_params, accVars, sysVars,
                   listVars, runVars, evalVars, par,
                   third_law, i, k, fxi, fyi, fzi, pei, viriali, ent>>

\* ----------------------------------------------------------- computeForces
ThirdLawAlways(mode) == TRUE

\* the comparison with the other storage mode
ThirdLawFull(mode) == mode = "full"

ThirdLaw(mode) == mode = "half"

\* the list left as it is
NlistComputeStale(t, c) ==
    /\ Idle
    /\ timestep' = t
    /\ caller' = c
    /\ pc' = "entered"
    /\ UNCHANGED <<tableVars, accVars, callVars, sysVars, listVars, evalVars, par, now,
                   log_value, third_law, i, k, fxi, fyi, fzi, pei, viriali, ent>>

\* the call computeForces(t) and its first statement, m_nlist->compute(t),
\* which builds the list unless it was built for timestep t already; c is
\* "log" when the call comes from getLogValue
NlistCompute(t, c) ==
    /\ Idle
    /\ timestep' = t
    /\ caller' = c
    /\ nlist_ts' = t
    /\ nlist' = IF nlist_ts = t THEN nlist ELSE BuildList
    /\ pc' = "entered"
    /\ UNCHANGED <<tableVars, accVars, callVars, sysVars, evalVars, par, now, log_value,
                   third_law, i, k, fxi, fyi, fzi, pei, viriali, ent>>

\* the memsets left out
ComputeBeginNoReset ==
    /\ pc = "entered"
    /\ third_law' = ThirdLaw(storage)
    /\ i' = 0 /\ k' = 0
    /\ fxi' = RZero /\ fyi' = RZero /\ fzi' = RZero /\ pei' = RZero /\ viriali' = RZero
    /\ ent' = NoEntry
    /\ pc' = "inner"
    /\ UNCHANGED <<tableVars, accVars, callVars, sysVars, listVars, runVars, evalVars, par>>

\* computeForces after the list update up to the first pass of the outer
\* loop: the flag third_law, the memsets, and the outer loop's locals for
\* particle 0
ComputeBegin ==
    /\ pc = "entered"
    /\ third_law' = ThirdLaw(storage)
    /\ m_fx' = ZeroAcc /\ m_fy' = ZeroAcc /\ m_fz' = ZeroAcc
    /\ m_pe' = ZeroAcc /\ m_virial' = ZeroAcc
    /\ i' = 0 /\ k' = 0
    /\ fxi' = RZero /\ fyi' = RZero /\ fzi' = RZero /\ pei' = RZero /\ viriali' = RZero
    /\ ent' = NoEntry
    /\ pc' = "inner"
    /\ UNCHANGED <<tableVars, callVars, sysVars, listVars, runVars, evalVars, par>>

\* one pass of the inner loop: neighbor k of particle i
NeighborEntry ==
    /\ pc = "inner"
    /\ k < Len(nlist[i])
    /\ LET j == nlist[i][k + 1]
           e == Entry(i, j)
           fx == RMul(R(e.dx), e.force_divr)
           fy == RMul(R(e.dy), e.force_divr)
           fz == RMul(R(e.dz), e.force_divr)
           pe == RMul(e.pair_eng, RHalf)
       IN  /\ ent' = e
           /\ IF e.inrange
              THEN /\ fxi' = RAdd(fxi, fx)
                   /\ fyi' = RAdd(fyi, fy)
                   /\ fzi' = RAdd(fzi, fz)
                   /\ pei' = RAdd(pei, pe)
                   /\ viriali' = RAdd(viriali, e.pair_virial)
                   /\ IF third_law
                      THEN /\ m_fx' = [m_fx EXCEPT ![j] = RSub(@, fx)]
                           /\ m_fy' = [m_fy EXCEPT ![j] = RSub(@, fy)]
                           /\ m_fz' = [m_fz EXCEPT ![j] = RSub(@, fz)]
                           /\ m_pe' = [m_pe EXCEPT ![j] = RAdd(@, pe)]
                           /\ m_virial' = [m_virial EXCEPT ![j] = RAdd(@, e.pair_virial)]
                      ELSE UNCHANGED accVars
              ELSE UNCHANGED <<fxi, fyi, fzi, pei, viriali, accVars>>
    /\ k' = k + 1
    /\ UNCHANGED <<tableVars, callVars, sysVars, listVars, runVars, evalVars, par,
                   pc, third_law, i>>

\* the locals assigned to the accumulators instead of added
ParticleEndOverwrite ==
    /\ pc = "inner"
    /\ k = Len(nlist[i])
    /\ m_fx' = [m_fx EXCEPT ![i] = fxi]
    /\ m_fy' = [m_fy EXCEPT ![i] = fyi]
    /\ m_fz' = [m_fz EXCEPT ![i] = fzi]
    /\ m_pe' = [m_pe EXCEPT ![i] = pei]
    /\ m_virial' = [m_virial EXCEPT ![i] = viriali]
    /\ fxi' = RZero /\ fyi' = RZero /\ fzi' = RZero /\ pei' = RZero /\ viriali' = RZero
    /\ ent' = NoEntry
    /\ k' = 0
    /\ IF i + 1 < nparticles
       THEN i' = i + 1 /\ pc' = "inner"
       ELSE i' = 0 /\ pc' = "done"
    /\ UNCHANGED <<tableVars, callVars, sysVars, listVars, runVars, evalVars, par,
                   third_law>>

\* end of one pass of the outer loop: particle i's locals go to its
\* accumulators; then the next particle's locals, or the return
ParticleEnd ==
    /\ pc = "inner"
    /\ k = Len(nlist[i])
    /\ m_fx' = [m_fx EXCEPT ![i] = RAdd(@, fxi)]
    /\ m_fy' = [m_fy EXCEPT ![i] = RAdd(@, fyi)]
    /\ m_fz' = [m_fz EXCEPT ![i] = RAdd(@, fzi)]
    /\ m_pe' = [m_pe EXCEPT ![i] = RAdd(@, pei)]
    /\ m_virial' = [m_virial EXCEPT ![i] = RAdd(@, viriali)]
    /\ fxi' = RZero /\ fyi' = RZero /\ fzi' = RZero /\ pei' = RZero /\ viriali' = RZero
    /\ ent' = NoEntry
    /\ k' = 0
    /\ IF i + 1 < nparticles
       THEN i' = i + 1 /\ pc' = "inner"
       ELSE i' = 0 /\ pc' = "done"
    /\ UNCHANGED <<tableVars, callVars, sysVars, listVars, runVars, evalVars, par,
                   third_law>>

computeForces == NlistCompute(now, "none") \/ ComputeBegin \/ NeighborEntry \/ ParticleEnd

\* --------------------------------------- the outer iterations side by side
\* The body of the outer loop for particle p run as a thread of its own, all
\* threads started after the memsets.  Every += and -= on an accumulator is a
\* read into the thread's register followed, in a later step, by a write.
\* par[p] holds the thread's position pc, its inner index k, the accumulator f
\* it is working on, the register reg, the locals loc = <<fxi, fyi, fzi, pei,
\* viriali>>, and of the entry being cross-credited the neighbor j and the
\* amounts cc.
Fields == 1 .. 5

Acc(f) ==
    CASE f = 1 -> m_fx [] f = 2 -> m_fy [] f = 3 -> m_fz [] f = 4 -> m_pe
      [] OTHER -> m_virial

StoreAcc(f, q, v) ==
    /\ m_fx' = IF f = 1 THEN [m_fx EXCEPT ![q] = v] ELSE m_fx
    /\ m_fy' = IF f = 2 THEN [m_fy EXCEPT ![q] = v] ELSE m_fy
    /\ m_fz' = IF f = 3 THEN [m_fz EXCEPT ![q] = v] ELSE m_fz
    /\ m_pe' = IF f = 4 THEN [m_pe EXCEPT ![q] = v] ELSE m_pe
    /\ m_virial' = IF f = 5 THEN [m_virial EXCEPT ![q] = v] ELSE m_virial

ZeroFields == [f \in Fields |-> RZero]

ThreadInit(p) ==
    [pc |-> IF Len(nlist[p]) = 0 THEN "end_read" ELSE "loop",
     k |-> 0, f |-> 1, reg |-> RZero, loc |-> ZeroFields, cc |-> ZeroFields, j |-> 0]

\* the thread of p after the entry k: the next entry, or the end of the body
NextEntry(p) ==
    [par[p] EXCEPT !.k = @ + 1, !.f = 1,
                   !.pc = IF par[p].k + 1 < Len(nlist[p]) THEN "loop" ELSE "end_read"]

ParUnchanged ==
    UNCHANGED <<tableVars, callVars, sysVars, listVars, loopVars, runVars, evalVars>>

\* one pass of the inner loop up to the additions to the locals
ParEntry(p) ==
    /\ pc = "parallel" /\ par[p].pc = "loop"
    /\ LET j == nlist[p][par[p].k + 1]
           e == Entry(p, j)
           fx == RMul(R(e.dx), e.force_divr)
           fy == RMul(R(e.dy), e.force_divr)
           fz == RMul(R(e.dz), e.force_divr)
           pe == RMul(e.pair_eng, RHalf)
           own == <<fx, fy, fz, pe, e.pair_virial>>
           cross == <<RNeg(fx), RNeg(fy), RNeg(fz), pe, e.pair_virial>>
           added == [f \in Fields |-> RAdd(par[p].loc[f], own[f])]
       IN  par' = [par EXCEPT ![p] =
                     IF ~e.inrange THEN NextEntry(p)
                     ELSE IF third_law
                     THEN [par[p] EXCEPT !.loc = added, !.cc = cross, !.j = j,
                                         !.f = 1, !.pc = "cross_read"]
                     ELSE [NextEntry(p) EXCEPT !.loc = added]]
    /\ UNCHANGED accVars
    /\ ParUnchanged

\* m_*[j] -= ..., m_*[j] += ...: the read
ParCrossRead(p) ==
    /\ pc = "parallel" /\ par[p].pc = "cross_read"
    /\ par' = [par EXCEPT ![p].reg = Acc(par[p].f)[par[p].j], ![p].pc = "cross_write"]
    /\ UNCHANGED accVars
    /\ ParUnchanged

\* m_*[j] -= ..., m_*[j] += ...: the write
ParCrossWrite(p) ==
    /\ pc = "parallel" /\ par[p].pc = "cross_write"
    /\ StoreAcc(par[p].f, par[p].j, RAdd(par[p].reg, par[p].cc[par[p].f]))
    /\ par' = [par EXCEPT ![p] =
                  IF par[p].f < Len(ZeroFields)
                  THEN [par[p] EXCEPT !.f = @ + 1, !.pc = "cross_read"]
                  ELSE NextEntry(p)]
    /\ ParUnchanged

\* m_*[i] += ...: the read
ParEndRead(p) ==
    /\ pc = "parallel" /\ par[p].pc = "end_read"
    /\ par' = [par EXCEPT ![p].reg = Acc(par[p].f)[p], ![p].pc = "end_write"]
    /\ UNCHANGED accVars
    /\ ParUnchanged

\* m_*[i] += ...: the write
ParEndWrite(p) ==
    /\ pc = "parallel" /\ par[p].pc = "end_write"
    /\ StoreAcc(par[p].f, p, RAdd(par[p].reg, par[p].loc[par[p].f]))
    /\ par' = [par EXCEPT ![p] =
                  IF par[p].f < Len(ZeroFields)
                  THEN [par[p] EXCEPT !.f = @ + 1, !.pc = "end_read"]
                  ELSE [par[p] EXCEPT !.pc = "finished"]]
    /\ ParUnchanged

\* ------------------------------------------------------------- getLogValue
\* "pair_" + evaluator::getName() + "_energy"
m_log_name == "pair_quadratic_energy"

getProvidedLogQuantities == <<m_log_name>>

Quantities == {m_log_name, "pair_quadratic_virial", "energy"}

\* ForceCompute::calcEnergySum
calcEnergySum == SumOver(m_pe, Particles)

\* ForceCompute::compute(t): computeForces(t), unless the forces are those
\* of a computation for timestep t already
compute(t, c) ==
    \/ NlistCompute(t, c)
    \/ /\ Idle /\ pc = "done" /\ timestep = t
       /\ caller' = c
       /\ UNCHANGED <<tableVars, accVars, callVars, sysVars, listVars, loopVars,
                      evalVars, par, now, timestep, log_value>>

\* the name compared after the computation
getLogValueComputeFirst(quantity, t) == compute(t, "log")

\* the computation left out
getLogValueNoCompute(quantity, t) ==
    /\ Idle
    /\ IF quantity = m_log_name
       THEN /\ caller' = "log"
            /\ pc' = "done"
            /\ UNCHANGED status
       ELSE /\ status' = "error"
            /\ UNCHANGED <<caller, pc>>
    /\ UNCHANGED <<tableVars, accVars, ncalls, shift_set, sysVars, listVars,
                   evalVars, par, now, timestep, log_value,
                   third_law, i, k, fxi, fyi, fzi, pei, viriali, ent>>

\* getLogValue up to the return of compute(t), or up to the throw
getLogValue(quantity, t) ==
    IF quantity = m_log_name
    THEN compute(t, "log")
    ELSE /\ Idle
         /\ status' = "error"
         /\ UNCHANGED <<tableVars, accVars, ncalls, shift_set, sysVars, listVars,
                        loopVars, runVars, evalVars, par>>

\* getLogValue after compute(t): return calcEnergySum()
getLogValueReturn ==
    /\ caller = "log" /\ pc = "done"
    /\ log_value' = calcEnergySum
    /\ caller' = "none"
    /\ status' = "ok"
    /\ UNCHANGED <<tableVars, accVars, ncalls, shift_set, sysVars, listVars,
                   loopVars, evalVars, par, now, timestep>>

\* ---------------------------------------------------------- specifications
\* the program from its construction, on a box centred on the origin
\* particle 0 in a corner, the others one step away from it, directly or
\* across the periodic boundary, or on its periodic image
NearPlacements(b) ==
    {pos \in [Particles -> Sites(b)] :
        /\ pos[0] = <<b.xlo, b.ylo, b.zhi - 1>>
        /\ \A p \in Particles \ {0} :
              pos[p] \in {<<b.xlo + 1, b.ylo, b.zhi - 1>>, <<b.xhi - 1, b.yhi - 1, b.zlo>>,
                          <<b.xhi, b.ylo, b.zhi - 1>>}}

Init ==
    /\ SystemInit({CentredBox(HalfBox, HalfBox, HalfBox)}, NearPlacements,
                  {t \in [Particles -> Types] : t[0] = 0})
    /\ RunInit
    /\ ListInit
    /\ EvalInit
    /\ TablesInit
    /\ LoopInit

Next ==
    \/ \E a \in TypeArgs, b \in TypeArgs, v \in ParamVals : setParams(a, b, v)
    \/ \E a \in TypeArgs, b \in TypeArgs, r \in RadiusVals : setRcut(a, b, r)
    \/ \E a \in TypeArgs, b \in TypeArgs, r \in RadiusVals : setRon(a, b, r)
    \/ \E m \in Modes : setShiftMode(m)
    \/ NlistCompute(now, "none")
    \/ ComputeBegin
    \/ NeighborEntry
    \/ ParticleEnd

Spec == Init /\ [][Next]_vars

\* computeForces alone, on every box and site, with the tables as the
\* configuration calls can leave them: the slot of types (0, 1) holds any
\* settable entry (outside mode xplor, where the onset is not read, one of two
\* onsets), the other slots a common one
\* particle 0 in a corner, the others on any site
AllPlacements(b) ==
    {pos \in [Particles -> Sites(b)] : pos[0] = <<b.xlo, b.ylo, b.zhi - 1>>}

SquareVals == {0} \cup {r * r : r \in RadiusVals}

ForceTablesInit ==
    /\ m_shift_mode \in Modes
    /\ shift_set = (m_shift_mode # no_shift)
    /\ \E rc \in SquareVals, ro \in SquareVals, v \in ParamVals :
          /\ m_shift_mode # xplor => ro \in {0, 1}
          /\ m_rcutsq = [s \in Slots |-> IF s = m_typpair_idx(0, 1) THEN rc
                                          ELSE HalfBox * HalfBox]
          /\ m_ronsq = [s \in Slots |-> IF s = m_typpair_idx(0, 1) THEN ro ELSE 1]
          /\ m_params = [s \in Slots |-> IF s = m_typpair_idx(0, 1) THEN v ELSE <<1, 1>>]

InitForce ==
    /\ SystemInit(Boxes, AllPlacements, {[p \in Particles |-> p % NTypes]})
    /\ RunInit
    /\ ListInit
    /\ EvalInit
    /\ ForceTablesInit
    /\ LoopInit

NextForce ==
    \/ NlistCompute(now, "none")
    \/ ComputeBegin
    \/ NeighborEntry
    \/ ParticleEnd

SpecForce == InitForce /\ [][NextForce]_vars

\* a run of the simulation: the tables configured once, the integrator moving
\* the particles from one timestep to the next, the forces and the log value
\* asked for at the timestep the simulation is at
\* particle 0 in a corner, the others one step away or beyond the list's cutoff
RunPlacements(b) ==
    {pos \in [Particles -> Sites(b) \cup {<<b.xlo + HalfBox, b.ylo + HalfBox, b.zhi - 1>>}] :
        /\ pos[0] = <<b.xlo, b.ylo, b.zhi - 1>>
        /\ \A p \in Particles \ {0} :
              pos[p] \in {<<b.xlo + 1, b.ylo, b.zhi - 1>>,
                          <<b.xlo + HalfBox, b.ylo + HalfBox, b.zhi - 1>>}}

RunTablesInit ==
    /\ m_shift_mode \in Modes
    /\ shift_set = (m_shift_mode # no_shift)
    /\ m_rcutsq = [s \in Slots |-> HalfBox * HalfBox]
    /\ m_ronsq = [s \in Slots |-> IF s = m_typpair_idx(0, 1) THEN 0 ELSE 1]
    /\ m_params = [s \in Slots |-> <<3, 2>>]

\* the integrator: the particles other than 0 move, the timestep advances
Integrate ==
    /\ Idle /\ now < MaxStep
    /\ now' = now + 1
    /\ \E pos \in RunPlacements(box) :
          /\ px' = [p \in Particles |-> pos[p][1]]
          /\ py' = [p \in Particles |-> pos[p][2]]
          /\ pz' = [p \in Particles |-> pos[p][3]]
    /\ pc' = "idle"
    /\ UNCHANGED <<tableVars, accVars, callVars, box, nparticles, ptype, diameter,
                   charge, storage, listVars, evalVars, par, timestep, caller, log_value,
                   third_law, i, k, fxi, fyi, fzi, pei, viriali, ent>>

InitRun ==
    /\ SystemInit({CentredBox(HalfBox, HalfBox, HalfBox)}, RunPlacements,
                  {[p \in Particles |-> p % NTypes]})
    /\ RunInit
    /\ nlist_ts = NoStep /\ nlist = NoList
    /\ EvalInit
    /\ RunTablesInit
    /\ LoopInit

NextRun ==
    \/ Integrate
    \/ NlistCompute(now, "none")
    \/ ComputeBegin
    \/ NeighborEntry
    \/ ParticleEnd
    \/ \E q \in Quantities : getLogValue(q, now)
    \/ getLogValueReturn

SpecRun == InitRun /\ [][NextRun]_vars

\* computeForces for evaluators with every combination of the two flags
FlagsInit ==
    /\ needsDiameter \in BOOLEAN
    /\ needsCharge \in BOOLEAN

InitEval ==
    /\ SystemInit({CentredBox(HalfBox, HalfBox, HalfBox)}, NearPlacements,
                  {[p \in Particles |-> p % NTypes]})
    /\ RunInit
    /\ ListInit
    /\ FlagsInit
    /\ RunTablesInit
    /\ LoopInit

SpecEval == InitEval /\ [][NextForce]_vars

\* computeForces on half lists of one particle more, every pair under either
\* of its particles and the entries of a particle in any order
Orders(S) ==
    {sq \in [1 .. Cardinality(S) -> S] : \A a \in S : \E n \in DOMAIN sq : sq[n] = a}

Reordered(lists) ==
    {l \in [DOMAIN lists -> UNION {Orders({lists[p][n] : n \in 1 .. Len(lists[p])}) :
                                      p \in DOMAIN lists}] :
        \A p \in DOMAIN lists :
           l[p] \in Orders({lists[p][n] : n \in 1 .. Len(lists[p])})}

InitHalf ==
    /\ nparticles = MaxParticles + 1
    /\ box = CentredBox(HalfBox, HalfBox, HalfBox)
    /\ \E pos \in NearPlacements(box) :
          /\ px = [p \in Particles |-> pos[p][1]]
          /\ py = [p \in Particles |-> pos[p][2]]
          /\ pz = [p \in Particles |-> pos[p][3]]
    /\ ptype = [p \in Particles |-> p % NTypes]
    /\ diameter = [p \in Particles |-> 2 * p + 2]
    /\ charge = [p \in Particles |-> 2 * p + 1]
    /\ storage = "half"
    /\ RunInit
    /\ nlist_ts = now
    /\ \E lists \in HalfLists(nparticles) : nlist \in Reordered(lists)
    /\ EvalInit
    /\ RunTablesInit
    /\ LoopInit

SpecHalf == InitHalf /\ [][NextForce]_vars

\* the outer iterations side by side, from the state after the memsets
InitPar ==
    /\ SystemInit({CentredBox(HalfBox, HalfBox, HalfBox)}, NearPlacements,
                  {[p \in Particles |-> p % NTypes]})
    /\ now = 0 /\ timestep = 0 /\ caller = "none" /\ log_value = RZero
    /\ ListInit
    /\ EvalInit
    /\ RunTablesInit
    /\ status = "none" /\ ncalls = 0
    /\ m_fx = ZeroAcc /\ m_fy = ZeroAcc /\ m_fz = ZeroAcc
    /\ m_pe = ZeroAcc /\ m_virial = ZeroAcc
    /\ pc = "parallel"
    /\ third_law = ThirdLaw(storage)
    /\ i = 0 /\ k = 0
    /\ fxi = RZero /\ fyi = RZero /\ fzi = RZero /\ pei = RZero /\ viriali = RZero
    /\ ent = NoEntry
    /\ par = [p \in Particles |-> ThreadInit(p)]

NextPar ==
    \/ \E p \in Particles : ParEntry(p)
    \/ \E p \in Particles : ParCrossRead(p)
    \/ \E p \in Particles : ParCrossWrite(p)
    \/ \E p \in Particles : ParEndRead(p)
    \/ \E p \in Particles : ParEndWrite(p)

SpecPar == InitPar /\ [][NextPar]_vars

\* ------------------------------------------------------------------ claims
StoredRcutsq(p, q) == m_rcutsq[m_typpair_idx(ptype[p], ptype[q])]

Listed(p, q) == \E n \in 1 .. Len(nlist[p]) : nlist[p][n] = q

Centred == box.xlo = -box.xhi /\ box.ylo = -box.yhi /\ box.zlo = -box.zhi

\* the box is at least twice the cutoff rcutsq on every axis
TwiceCutoff(rcutsq) ==
    /\ 4 * rcutsq <= (box.xhi - box.xlo) * (box.xhi - box.xlo)
    /\ 4 * rcutsq <= (box.yhi - box.ylo) * (box.yhi - box.ylo)
    /\ 4 * rcutsq <= (box.zhi - box.zlo) * (box.zhi - box.zlo)

\* the force <<fx, fy, fz>> that entry (p, q) adds to p
OwnForce(p, q) ==
    LET e == Entry(p, q)
    IN  <<RMul(R(e.dx), e.force_divr), RMul(R(e.dy), e.force_divr),
          RMul(R(e.dz), e.force_divr)>>

VZero == <<RZero, RZero, RZero>>
VNeg(v) == <<RNeg(v[1]), RNeg(v[2]), RNeg(v[3])>>
VAdd(v, w) == <<RAdd(v[1], w[1]), RAdd(v[2], w[2]), RAdd(v[3], w[3])>>

\* the force that the entries of the unordered pair {p, q} leave in p's
\* accumulator: p's own entry, and in half mode the cross-credit of q's entry
PairForceOn(p, q) ==
    VAdd(IF Listed(p, q) THEN OwnForce(p, q) ELSE VZero,
         IF storage = "half" /\ Listed(q, p) THEN VNeg(OwnForce(q, p)) ELSE VZero)

NewtonThirdLaw ==
    \A p \in Particles, q \in Particles :
        (p < q /\ MinImageRsq(p, q) < StoredRcutsq(p, q)
               /\ TwiceCutoff(StoredRcutsq(p, q)))
        => /\ PairForceOn(p, q) = VNeg(PairForceOn(q, p))
           /\ nparticles = 2 =>
                 <<m_fx[p], m_fy[p], m_fz[p]>> = VNeg(<<m_fx[q], m_fy[q], m_fz[q]>>)

\* C1: after computeForces, every pair inside its cutoff (in a box at least
\* twice the cutoff, as the minimum image rule needs) has left in i's
\* accumulator the exact negation of the force it left in j's, in half and
\* in full mode
C1_ForcesOpposite == pc = "done" => NewtonThirdLaw

\* on boxes centred on the origin the forces of C1 are opposite
ForcesOppositeCentred == (pc = "done" /\ Centred) => NewtonThirdLaw

PairSet == {pr \in Particles \X Particles : pr[1] < pr[2]}

\* the pair energy of each unordered pair at its minimum-image separation
PairEnergies ==
    [pr \in PairSet |->
        Interaction(MinImageRsq(pr[1], pr[2]), ptype[pr[1]], ptype[pr[2]]).pair_eng]

EnergyOnce == SumOver(m_pe, Particles) = SumOver(PairEnergies, PairSet)

\* C3: after one computeForces pass the potential-energy accumulators sum to
\* the pair energies of the unique pairs inside their cutoff, each once, in
\* half and in full mode
C3_EnergyCountedOnce == pc = "done" => EnergyOnce

\* on boxes centred on the origin the energy of C3 is counted once
EnergyOnceCentred == (pc = "done" /\ Centred) => EnergyOnce

HalfLength ==
    /\ 2 * Abs(ent.dx) <= box.xhi - box.xlo
    /\ 2 * Abs(ent.dy) <= box.yhi - box.ylo
    /\ 2 * Abs(ent.dz) <= box.zhi - box.zlo

\* C5: for every box and every two positions inside it, the offset that
\* computeForces uses after the periodic correction is at most half the box
\* length on each axis
C5_OffsetWithinHalfBox == ent.valid => HalfLength

\* on boxes centred on the origin the offsets of C5 are within half the box
OffsetWithinHalfBoxCentred == (ent.valid /\ Centred) => HalfLength

\* a step of the inner loop, and the contributions of the entry it processed
EntryStep == pc = "inner" /\ k' = k + 1

StepForce == <<RMul(R(ent'.dx), ent'.force_divr), RMul(R(ent'.dy), ent'.force_divr),
               RMul(R(ent'.dz), ent'.force_divr)>>

StepEnergy == RMul(R(1), <<ent'.pair_eng[1], 2 * ent'.pair_eng[2]>>)

CreditsI ==
    /\ <<fxi', fyi', fzi'>> = VAdd(<<fxi, fyi, fzi>>, StepForce)
    /\ pei' = RAdd(pei, StepEnergy)
    /\ viriali' = RAdd(viriali, ent'.pair_virial)

CreditsJ ==
    LET j == ent'.j
    IN  /\ <<m_fx'[j], m_fy'[j], m_fz'[j]>>
              = VAdd(<<m_fx[j], m_fy[j], m_fz[j]>>, VNeg(StepForce))
        /\ m_pe'[j] = RAdd(m_pe[j], StepEnergy)
        /\ m_virial'[j] = RAdd(m_virial[j], ent'.pair_virial)
        /\ \A p \in Particles \ {j} :
              /\ m_fx'[p] = m_fx[p] /\ m_fy'[p] = m_fy[p] /\ m_fz'[p] = m_fz[p]
              /\ m_pe'[p] = m_pe[p] /\ m_virial'[p] = m_virial[p]

\* C2: an entry (i, j) inside the cutoff adds force_over_r*(dx,dy,dz) to i, and
\* writes the opposite force, half the pair energy and the pair virial into
\* j's accumulator if and only if the storage mode is half; in full mode no
\* accumulator array changes while the entry is processed
C2_CrossCreditIffHalf ==
    [][(EntryStep /\ ent'.rsq < StoredRcutsq(i, ent'.j)) =>
          /\ CreditsI
          /\ IF storage = "half" THEN CreditsJ ELSE UNCHANGED accVars]_vars

C2_Witness ==
    /\ pc = "inner" /\ ent.valid /\ ent.inrange /\ storage = "half"
    /\ m_fx[ent.j] # RZero /\ m_pe[ent.j] # RZero /\ m_virial[ent.j] # RZero
    /\ fxi = RNeg(m_fx[ent.j])

\* C4: an entry whose rsq is at or beyond the stored cutoff squared changes no
\* force, energy or virial, of either particle, in every shift mode
C4_BeyondCutoffNothing ==
    [][(EntryStep /\ ent'.rsq >= StoredRcutsq(i, ent'.j)) =>
          UNCHANGED <<accVars, fxi, fyi, fzi, pei, viriali>>]_vars

C4_Witness ==
    /\ pc = "inner" /\ ent.valid /\ ent.rsq = StoredRcutsq(ent.i, ent.j) /\ ent.rsq > 0
    /\ m_shift_mode = shift /\ ent.param[2] # 0
    /\ fxi = RZero /\ pei = RZero /\ m_fx[ent.j] = RZero

StoredRonsq(p, q) == m_ronsq[m_typpair_idx(ptype[p], ptype[q])]

\* C6: the shift flag of an entry is false in mode none, true in mode
\* hard-shift, and in mode xplor true exactly when the stored onset squared
\* exceeds the stored cutoff squared; the mode is no_shift until setShiftMode
\* is called
C6_ShiftFlag ==
    /\ ent.valid =>
          ent.energy_shift =
             CASE m_shift_mode = no_shift -> FALSE
               [] m_shift_mode = shift -> TRUE
               [] m_shift_mode = xplor ->
                     StoredRonsq(ent.i, ent.j) > StoredRcutsq(ent.i, ent.j)
    /\ ~shift_set => m_shift_mode = no_shift

C6_Witness ==
    /\ ent.valid /\ ent.inrange /\ m_shift_mode = xplor /\ ent.energy_shift
    /\ shift_set

\* the evaluator's output for the entry, with and without the energy shift
RawForce == EvalForce(ent.rsq, StoredRcutsq(ent.i, ent.j), ent.param)
RawEnergy(energy_shift) ==
    EvalEnergy(ent.rsq, StoredRcutsq(ent.i, ent.j), ent.param, energy_shift)

\* C7: the XPLOR window is applied exactly when the mode is xplor, the shift
\* flag is unset and onset squared <= rsq < cutoff squared, and then
\* energy = s*raw_energy and force_over_r = s*raw_force - ds_dr_over_r*raw_energy
\* with s and ds_dr_over_r as specified, from the unshifted evaluator output;
\* in every other case the evaluator output is used unmodified
C7_XplorWindow ==
    (ent.valid /\ ent.rsq < StoredRcutsq(ent.i, ent.j)) =>
       LET rsq == ent.rsq
           rc == StoredRcutsq(ent.i, ent.j)
           ro == StoredRonsq(ent.i, ent.j)
           den == R((rc - ro) * (rc - ro) * (rc - ro))
           snum == R((rsq - rc) * (rsq - rc) * (rc + 2 * rsq - 3 * ro))
           dsnum == R(12 * (rsq - ro) * (rsq - rc))
       IN  IF m_shift_mode = xplor /\ ~ent.energy_shift /\ ro <= rsq
           THEN /\ ent.windowed
                /\ RMul(ent.pair_eng, den) = RMul(snum, RawEnergy(FALSE))
                /\ RMul(ent.force_divr, den)
                      = RSub(RMul(snum, RawForce), RMul(dsnum, RawEnergy(FALSE)))
           ELSE /\ ~ent.windowed
                /\ ent.pair_eng = RawEnergy(ent.energy_shift)
                /\ ent.force_divr = RawForce

C7_Witness ==
    /\ ent.valid /\ ent.windowed
    /\ 0 < ent.ronsq /\ ent.ronsq < ent.rsq
    /\ ent.pair_eng[2] > 1 /\ ent.force_divr[2] > 1
    /\ ent.pair_eng # ent.old_pair_eng

\* C8: for a type pair with onset squared < cutoff squared the window has
\* s = 1 and ds_dr_over_r = 0 at rsq = onset squared, so that an entry there
\* keeps the raw unshifted energy and force_over_r, and s = 0 and
\* ds_dr_over_r = 0 at rsq = cutoff squared
C8_WindowBoundaries ==
    /\ \A sl \in Slots :
          m_ronsq[sl] < m_rcutsq[sl] =>
             /\ XplorS(m_ronsq[sl], m_rcutsq[sl], m_ronsq[sl]) = R(1)
             /\ XplorDs(m_ronsq[sl], m_rcutsq[sl], m_ronsq[sl]) = RZero
             /\ XplorS(m_rcutsq[sl], m_rcutsq[sl], m_ronsq[sl]) = RZero
             /\ XplorDs(m_rcutsq[sl], m_rcutsq[sl], m_ronsq[sl]) = RZero
    /\ (ent.valid /\ ent.windowed /\ ent.rsq = StoredRonsq(ent.i, ent.j)) =>
          /\ ent.pair_eng = RawEnergy(FALSE)
          /\ ent.force_divr = RawForce

C8_Witness ==
    /\ ent.valid /\ ent.windowed /\ ent.rsq = ent.ronsq /\ ent.ronsq > 0
    /\ ent.pair_eng # RZero /\ ent.force_divr # RZero

BadType(a, b) == a >= NTypes \/ b >= NTypes

Rejected == status' = "error" /\ UNCHANGED tableVars

\* C9: setParams, setRcut and setRon called with typ1 or typ2 at or beyond the
\* number of types fail with an error and leave every entry of the three
\* tables as it was
C9_BadTypeRejected ==
    [][\A a \in TypeArgs, b \in TypeArgs :
          BadType(a, b) =>
             /\ \A v \in ParamVals : setParams(a, b, v) => Rejected
             /\ \A r \in RadiusVals : setRcut(a, b, r) => Rejected
             /\ \A r \in RadiusVals : setRon(a, b, r) => Rejected]_vars

C9_Witness ==
    /\ status = "error"
    /\ \E sl \in Slots : m_rcutsq[sl] # 0 /\ m_params[sl] # ParamZero

\* the values that computeForces reads for the type pair (a, b)
ReadParam(a, b) == m_params[m_typpair_idx(a, b)]
ReadRcutsq(a, b) == m_rcutsq[m_typpair_idx(a, b)]
ReadRonsq(a, b) == m_ronsq[m_typpair_idx(a, b)]

OtherPairs(a, b) == {cd \in Types \X Types : {cd[1], cd[2]} # {a, b}}

\* C10: after setParams(a, b, v) (setRcut(a, b, r), setRon(a, b, r)) with valid
\* types, computeForces reads v (r*r) for the pair (b, a) as for (a, b), a
\* later set in either order overwrites it, and the values of the other
\* unordered pairs are unchanged
C10_SymmetricSlot ==
    [][/\ \A a \in Types, b \in Types :
          /\ \A v \in ParamVals :
                setParams(a, b, v) =>
                   /\ ReadParam(b, a)' = v /\ ReadParam(a, b)' = v
                   /\ \A cd \in OtherPairs(a, b) :
                         ReadParam(cd[1], cd[2])' = ReadParam(cd[1], cd[2])
          /\ \A r \in RadiusVals :
                setRcut(a, b, r) =>
                   /\ ReadRcutsq(b, a)' = r * r /\ ReadRcutsq(a, b)' = r * r
                   /\ \A cd \in OtherPairs(a, b) :
                         ReadRcutsq(cd[1], cd[2])' = ReadRcutsq(cd[1], cd[2])
          /\ \A r \in RadiusVals :
                setRon(a, b, r) =>
                   /\ ReadRonsq(b, a)' = r * r /\ ReadRonsq(a, b)' = r * r
                   /\ \A cd \in OtherPairs(a, b) :
                         ReadRonsq(cd[1], cd[2])' = ReadRonsq(cd[1], cd[2])
       /\ EntryStep =>
             /\ ent'.param = ReadParam(ptype[ent'.j], ptype[i])
             /\ ent'.rcutsq = ReadRcutsq(ptype[ent'.j], ptype[i])
             /\ m_shift_mode = xplor => ent'.ronsq = ReadRonsq(ptype[ent'.j], ptype[i])]_vars

C10_Witness ==
    /\ ent.valid /\ ptype[ent.i] = 1 /\ ptype[ent.j] = 0
    /\ ent.param # ParamZero /\ ent.param = m_params[1]
    /\ m_params[0] = ParamZero /\ m_params[2] = ParamZero
    /\ ent.rcutsq # 0

\* the contributions of the entry (p, q) of the list, as the loop computes them
EntryForceX(p, q) == LET e == Entry(p, q) IN RMul(R(e.dx), e.force_divr)
EntryForceY(p, q) == LET e == Entry(p, q) IN RMul(R(e.dy), e.force_divr)
EntryForceZ(p, q) == LET e == Entry(p, q) IN RMul(R(e.dz), e.force_divr)
EntryEnergy(p, q) == RMul(Entry(p, q).pair_eng, RHalf)
EntryVirial(p, q) == Entry(p, q).pair_virial

Neighbors(p) == {nlist[p][n] : n \in 1 .. Len(nlist[p])}
ListedBy(p) == {q \in Particles : storage = "half" /\ p \in Neighbors(q)}

\* what the entries of the current list give particle p in one pass, from the
\* current positions, types, box, tables and shift mode alone
ResultFx(p) ==
    RSub(SumOver([q \in Neighbors(p) |-> EntryForceX(p, q)], Neighbors(p)),
         SumOver([q \in ListedBy(p) |-> EntryForceX(q, p)], ListedBy(p)))
ResultFy(p) ==
    RSub(SumOver([q \in Neighbors(p) |-> EntryForceY(p, q)], Neighbors(p)),
         SumOver([q \in ListedBy(p) |-> EntryForceY(q, p)], ListedBy(p)))
ResultFz(p) ==
    RSub(SumOver([q \in Neighbors(p) |-> EntryForceZ(p, q)], Neighbors(p)),
         SumOver([q \in ListedBy(p) |-> EntryForceZ(q, p)], ListedBy(p)))
ResultPe(p) ==
    RAdd(SumOver([q \in Neighbors(p) |-> EntryEnergy(p, q)], Neighbors(p)),
         SumOver([q \in ListedBy(p) |-> EntryEnergy(q, p)], ListedBy(p)))
ResultVirial(p) ==
    RAdd(SumOver([q \in Neighbors(p) |-> EntryVirial(p, q)], Neighbors(p)),
         SumOver([q \in ListedBy(p) |-> EntryVirial(q, p)], ListedBy(p)))

AccumulatorsAreResult ==
    \A p \in Particles :
        /\ m_fx[p] = ResultFx(p) /\ m_fy[p] = ResultFy(p) /\ m_fz[p] = ResultFz(p)
        /\ m_pe[p] = ResultPe(p) /\ m_virial[p] = ResultVirial(p)

LogReturns == caller = "log" /\ caller' = "none"

\* C11: getLogValue with the provided name brings the computation up to date
\* for the timestep asked for and then returns the sum of the potential
\* energy accumulators of that computation; the name is the only provided
\* log quantity
C11_LogValueIsEnergySum ==
    /\ [][LogReturns =>
            /\ pc = "done" /\ timestep = now /\ nlist_ts = now
            /\ \A p \in Particles : m_pe[p] = ResultPe(p)
            /\ log_value' = SumOver([p \in Particles |-> ResultPe(p)], Particles)
            /\ status' = "ok"]_vars
    /\ [](getProvidedLogQuantities = <<"pair_quadratic_energy">>)

C11_Witness ==
    /\ caller = "none" /\ status = "ok" /\ pc = "done"
    /\ now > 0 /\ timestep = now
    /\ log_value # RZero /\ log_value = calcEnergySum /\ m_pe[0] # RZero

\* C12: getLogValue with any other name fails with an error, starts no force
\* computation and no neighbor list update, and changes no accumulator and no
\* table entry
C12_OtherNameRejected ==
    [][\A q \in Quantities \ {m_log_name} :
          getLogValue(q, now) =>
             /\ status' = "error"
             /\ UNCHANGED <<tableVars, accVars, listVars, loopVars, runVars, sysVars>>]_vars

C12_Witness ==
    /\ status = "error" /\ pc = "idle" /\ caller = "none"
    /\ nlist_ts # NoStep /\ nlist_ts < now
    /\ m_pe[0] # RZero

ResetStep == pc = "entered" /\ pc' = "inner"

\* C13: every computeForces call zeroes all accumulators before accumulating,
\* so that after the call they are a function of the current positions,
\* types, box, tables, shift mode and list alone, whatever an earlier call
\* left in them
C13_NoResidue ==
    /\ [][ResetStep =>
            /\ m_fx' = ZeroAcc /\ m_fy' = ZeroAcc /\ m_fz' = ZeroAcc
            /\ m_pe' = ZeroAcc /\ m_virial' = ZeroAcc]_vars
    /\ [](pc = "done" => AccumulatorsAreResult)

C13_Witness ==
    /\ pc = "done" /\ now > 0 /\ timestep = now
    /\ log_value # RZero
    /\ \A p \in Particles :
          /\ m_fx[p] = RZero /\ m_pe[p] = RZero /\ m_virial[p] = RZero

\* C16: in every computeForces(timestep) the list's compute(timestep) comes
\* before the reset of the accumulators and before any entry is read: the
\* call that updates the list changes no accumulator, and the reset and every
\* entry read find the list built for the call's timestep from the current
\* positions
C16_ListUpdatedFirst ==
    [][/\ (pc # "entered" /\ pc' = "entered") =>
             /\ nlist_ts' = timestep' /\ UNCHANGED accVars
       /\ (ResetStep \/ EntryStep) =>
             /\ nlist_ts = timestep /\ timestep = now
             /\ nlist = BuildList]_vars

C16_Witness ==
    /\ pc = "inner" /\ ent.valid /\ ent.inrange
    /\ now > 0 /\ timestep = now /\ nlist_ts = now

ParticleEndStep == pc = "inner" /\ k' = 0 /\ (i' = i + 1 \/ pc' = "done")

\* (1/6) * rsq * force_over_r of the entry just processed
StepVirial ==
    Norm(ent'.rsq * ent'.force_divr[1], 6 * ent'.force_divr[2])

\* C14: an entry inside the cutoff adds (1/6)*rsq*force_over_r, without a
\* minus sign and with the force_over_r left by the shifting policy, to the
\* virial of particle i (its running sum, added to its accumulator at the end
\* of its iteration), and in half mode the same value with the same sign to
\* the virial accumulator of particle j
C14_VirialSameSign ==
    [][/\ (EntryStep /\ ent'.rsq < StoredRcutsq(i, ent'.j)) =>
             /\ viriali' = RAdd(viriali, StepVirial)
             /\ storage = "half" =>
                   m_virial'[ent'.j] = RAdd(m_virial[ent'.j], StepVirial)
       /\ ParticleEndStep => m_virial'[i] = RAdd(m_virial[i], viriali)]_vars

C14_Witness ==
    /\ pc = "inner" /\ ent.valid /\ ent.windowed /\ storage = "half"
    /\ ent.force_divr # ent.old_force_divr
    /\ ent.pair_virial[1] > 0
    /\ viriali = ent.pair_virial /\ m_virial[ent.j] = ent.pair_virial

\* the diameters reach an evaluator that needs them, and only such a one
DiametersSupplied ==
    (ent.valid /\ ent.inrange) =>
       /\ needsDiameter => ent.set_diameter = <<diameter[ent.i], diameter[ent.j]>>
       /\ ~needsDiameter => ent.set_diameter = NotSet /\ ent.di = 0 /\ ent.dj = 0

\* C15: the evaluator of an entry (i, j) is given the charges of i and j when
\* it needs charges and the diameters of i and j when it needs diameters; a
\* field that is not needed is neither fetched nor given
C15_OptionalFields ==
    (ent.valid /\ ent.inrange) =>
       /\ needsCharge => ent.set_charge = <<charge[ent.i], charge[ent.j]>>
       /\ ~needsCharge => ent.set_charge = NotSet /\ ent.qi = 0 /\ ent.qj = 0
       /\ needsDiameter => ent.set_diameter = <<diameter[ent.i], diameter[ent.j]>>
       /\ ~needsDiameter => ent.set_diameter = NotSet /\ ent.di = 0 /\ ent.dj = 0

\* C18: whenever the XPLOR window is evaluated for an entry the stored onset
\* squared is below the stored cutoff squared, so that (rcutsq - ronsq)^3 is
\* positive; a type pair with onset at or beyond the cutoff never reaches
\* the division
C18_WindowDenominatorPositive ==
    ent.valid =>
       LET rc == StoredRcutsq(ent.i, ent.j)
           ro == StoredRonsq(ent.i, ent.j)
       IN  /\ ent.windowed =>
                 /\ ro < rc
                 /\ (rc - ro) * (rc - ro) * (rc - ro) > 0
                 /\ XplorDenomInv(rc, ro)[2] # 0
           /\ (m_shift_mode = xplor /\ ro >= rc) =>
                 /\ ~ent.windowed
                 /\ ent.force_divr[2] # 0 /\ ent.pair_eng[2] # 0

C18_Witness ==
    /\ ent.valid /\ ent.inrange /\ m_shift_mode = xplor
    /\ StoredRonsq(ent.i, ent.j) = StoredRcutsq(ent.i, ent.j)
    /\ ~ent.windowed /\ ent.pair_eng # RZero

\* the entries of the list, as <<i, j>>
Entries == {e \in Particles \X Particles : e[2] \in Neighbors(e[1])}

\* the sum over the entries in which p is i of own, and over those in which
\* p is j of cross
SumAsIAndJ(p, own, cross) ==
    RAdd(SumOver(own, {e \in Entries : e[1] = p}),
         SumOver(cross, {e \in Entries : e[2] = p}))

EntryFx == [e \in Entries |-> EntryForceX(e[1], e[2])]
EntryFy == [e \in Entries |-> EntryForceY(e[1], e[2])]
EntryFz == [e \in Entries |-> EntryForceZ(e[1], e[2])]
EntryPe == [e \in Entries |-> EntryEnergy(e[1], e[2])]
EntryVir == [e \in Entries |-> EntryVirial(e[1], e[2])]
Negated(f) == [e \in DOMAIN f |-> RNeg(f[e])]

\* C19: in half mode the final accumulator of every particle p is the sum of
\* the contributions of the entries in which p is i and of the cross-credits
\* of the entries in which p is j, of particles visited before or after p:
\* the end of p's iteration adds to what was cross-credited, and the result
\* does not depend on the order of the particles or of the entries
C19_HalfModeSums ==
    /\ [][ParticleEndStep =>
            /\ m_fx'[i] = RAdd(m_fx[i], fxi) /\ m_fy'[i] = RAdd(m_fy[i], fyi)
            /\ m_fz'[i] = RAdd(m_fz[i], fzi) /\ m_pe'[i] = RAdd(m_pe[i], pei)
            /\ m_virial'[i] = RAdd(m_virial[i], viriali)]_vars
    /\ []((pc = "done" /\ storage = "half") =>
            \A p \in Particles :
               /\ m_fx[p] = SumAsIAndJ(p, EntryFx, Negated(EntryFx))
               /\ m_fy[p] = SumAsIAndJ(p, EntryFy, Negated(EntryFy))
               /\ m_fz[p] = SumAsIAndJ(p, EntryFz, Negated(EntryFz))
               /\ m_pe[p] = SumAsIAndJ(p, EntryPe, EntryPe)
               /\ m_virial[p] = SumAsIAndJ(p, EntryVir, EntryVir))

C19_Witness ==
    /\ pc = "done" /\ storage = "half" /\ nparticles > 2
    /\ nlist[0] = <<2, 1>> /\ nlist[1] = <<2>>
    /\ Entry(0, 1).inrange /\ Entry(1, 2).inrange
    /\ EntryForceX(0, 1) # RZero /\ EntryForceX(1, 2) # RZero
    /\ m_fx[1] = RSub(EntryForceX(1, 2), EntryForceX(0, 1))
    /\ m_fx[1] # EntryForceX(1, 2)

AllFinished == pc = "parallel" /\ \A p \in Particles : par[p].pc = "finished"

AccOf(q) == <<m_fx[q], m_fy[q], m_fz[q], m_pe[q], m_virial[q]>>

\* C17: with the outer iterations run side by side and every accumulator
\* update a separate read and write, in full mode the iteration of particle i
\* writes accumulator i only, and every interleaving ends with the
\* accumulators of the sequential scan; in half mode the iteration of i also
\* writes accumulator j, and an interleaving loses a contribution (the state
\* C17_Witness)
C17_FullModeRaceFree ==
    /\ [][(pc = "parallel" /\ storage = "full") =>
            \A p \in Particles :
               par'[p] # par[p] =>
                  \A q \in Particles \ {p} : AccOf(q)' = AccOf(q)]_vars
    /\ []((AllFinished /\ storage = "full") => AccumulatorsAreResult)

C17_Witness ==
    /\ AllFinished /\ storage = "half"
    /\ \E p \in Particles :
          /\ m_fx[p] # ResultFx(p)
          /\ m_fx[p] = RZero
          /\ \E q \in Particles : p \in Neighbors(q) /\ EntryForceX(q, p) # RZero

====
